---------------------------- MODULE Spec2Model ----------------------------
(***************************************************************************)
(* envicutor: sandbox lifecycle (isolate.rs), runtime installation        *)
(* pipeline (install_packages.rs), the metadata decoder they share, and   *)
(* the nsjail command line of the worker (child-container-init/main.rs).  *)
(*                                                                         *)
(* Specifications over one set of variables:                               *)
(*   Spec          concurrent install_package requests                     *)
(*   SpecAdmission the installations that get as far as the semaphore      *)
(*   SpecArrivals  install_package called again and again                  *)
(*   SpecIsolate   Isolate handles: init / run / drop / spawned cleanup    *)
(*   SpecDecode    the metadata decoder applied to bounded texts           *)
(*   SpecBoxId     the shared box-id counter                               *)
(*   SpecStage     run_this_stage of the worker's child-container-init     *)
(* Strings are sequences of one-character strings, so that splitting and   *)
(* parsing are computed and not assumed.                                   *)
(***************************************************************************)
EXTENDS Integers, Sequences, FiniteSets, TLC

(***************************************************************************)
(* Bounds of the model                                                     *)
(***************************************************************************)
\* longest metadata text, in lines, that SpecDecode enumerates
MaxLines == 2
\* allocations SpecBoxId follows beyond one full round of MAX_BOX_ID
ExtraAllocs == 20
\* Isolate handles SpecIsolate creates, and run calls made on one handle
NumHandles == 2
MaxRuns == 2
\* concurrent install_package requests, and the gate's capacity N
NumRequests == 2
Permits == 1

(***************************************************************************)
(* Option and Result values                                                *)
(***************************************************************************)
None == <<>>
Some(x) == <<x>>
IsSome(o) == Len(o) = 1
Unwrap(o) == o[1]

Ok(x) == [ok |-> TRUE, val |-> <<x>>]
Err == [ok |-> FALSE, val |-> <<>>]
OkVal(r) == r.val[1]

(***************************************************************************)
(* Characters and the metadata keys                                        *)
(***************************************************************************)
Digits == <<"0", "1", "2", "3", "4", "5", "6", "7", "8", "9">>
IsDigit(c) == \E i \in 1..10 : Digits[i] = c
DigitVal(c) == (CHOOSE i \in 1..10 : Digits[i] = c) - 1

K_cgmem == <<"c", "g", "m", "e", "m">>
K_exitcode == <<"e", "x", "i", "t", "c", "o", "d", "e">>
K_exitsig == <<"e", "x", "i", "t", "s", "i", "g">>
K_message == <<"m", "e", "s", "s", "a", "g", "e">>
K_status == <<"s", "t", "a", "t", "u", "s">>
K_time == <<"t", "i", "m", "e">>
K_time_wall == <<"t", "i", "m", "e", "-", "w", "a", "l", "l">>

(***************************************************************************)
(* str::split and str::lines                                               *)
(***************************************************************************)
HasChar(s, c) == \E i \in 1..Len(s) : s[i] = c
FirstIndex(s, c) == CHOOSE i \in 1..Len(s) : s[i] = c /\ \A j \in 1..(i - 1) : s[j] # c

RECURSIVE Split(_, _)
Split(s, c) ==
    IF ~HasChar(s, c) THEN <<s>>
    ELSE LET i == FirstIndex(s, c)
         IN  <<SubSeq(s, 1, i - 1)>> \o Split(SubSeq(s, i + 1, Len(s)), c)

\* a line keeps no "\n"; a "\r" is dropped only where "\n" followed it; the
\* empty piece after a final "\n" is no line
Lines(text) ==
    LET parts == Split(text, "\n")
        n == Len(parts)
        Strip(i) ==
            LET p == parts[i]
            IN  IF i < n /\ Len(p) > 0 /\ p[Len(p)] = "\r"
                THEN SubSeq(p, 1, Len(p) - 1) ELSE p
        kept == IF parts[n] = <<>> THEN n - 1 ELSE n
    IN  [i \in 1..kept |-> Strip(i)]

(***************************************************************************)
(* split_metadata_line: the last piece is the value, the one before it     *)
(* the key                                                                 *)
(***************************************************************************)
SplitTakesFirstTwo(line) ==
    LET entry == Split(line, ":")
        n == Len(entry)
    IN  [key |-> IF n >= 2 THEN Ok(entry[1]) ELSE Err,
         value |-> IF n >= 2 THEN Ok(entry[2]) ELSE IF n = 1 THEN Ok(entry[1]) ELSE Err]

SplitKeyDefaultsToLine(line) ==
    LET entry == Split(line, ":")
        n == Len(entry)
    IN  [key |-> IF n >= 2 THEN Ok(entry[n - 1]) ELSE Ok(entry[n]),
         value |-> Ok(entry[n])]

split_metadata_line(line) ==
    LET entry == Split(line, ":")
        n == Len(entry)
    IN  [key |-> IF n >= 2 THEN Ok(entry[n - 1]) ELSE Err,
         value |-> IF n >= 1 THEN Ok(entry[n]) ELSE Err]

(***************************************************************************)
(* <u32 as FromStr>::from_str, as the decoder's value.parse() calls it     *)
(***************************************************************************)
\* u32::MAX is 4294967295 = U32MaxDiv10 * 10 + U32MaxMod10
U32MaxDiv10 == 429496729
U32MaxMod10 == 5

RECURSIVE ParseDigits(_, _)
ParseDigits(s, acc) ==
    IF s = <<>> THEN Ok(acc)
    ELSE IF ~IsDigit(s[1]) THEN Err
    ELSE LET d == DigitVal(s[1])
         IN  IF acc > U32MaxDiv10 \/ (acc = U32MaxDiv10 /\ d > U32MaxMod10)
             THEN Err
             ELSE ParseDigits(Tail(s), acc * 10 + d)

ParseU32(v) ==
    IF v = <<>> THEN Err
    ELSE LET w == IF v[1] = "+" THEN Tail(v) ELSE v
         IN  IF w = <<>> THEN Err ELSE ParseDigits(w, 0)


(***************************************************************************)
(* The decoding loop of Isolate::run and of install_package                *)
(***************************************************************************)
NoFields ==
    [memory |-> None, exit_code |-> None, exit_signal |-> None,
     exit_message |-> None, exit_status |-> None,
     cpu_time |-> None, wall_time |-> None]

\* one numeric arm of the match: Some(value.parse()?)
SetParsed(fields, name, value) ==
    LET p == ParseU32(value)
    IN  IF p.ok THEN Ok([fields EXCEPT ![name] = Some(OkVal(p))]) ELSE Err

DecodeLineSkipsBadLines(fields, line) ==
    LET kv == split_metadata_line(line)
    IN  IF ~kv.key.ok \/ ~kv.value.ok THEN Ok(fields)
        ELSE LET key == OkVal(kv.key)
                 value == OkVal(kv.value)
                 Num(name) == LET r == SetParsed(fields, name, value)
                              IN  IF r.ok THEN r ELSE Ok(fields)
             IN  CASE key = K_cgmem -> Num("memory")
                   [] key = K_exitcode -> Num("exit_code")
                   [] key = K_exitsig -> Num("exit_signal")
                   [] key = K_message -> Ok([fields EXCEPT !.exit_message = Some(value)])
                   [] key = K_status -> Ok([fields EXCEPT !.exit_status = Some(value)])
                   [] key = K_time -> Num("cpu_time")
                   [] key = K_time_wall -> Num("wall_time")
                   [] OTHER -> Ok(fields)

DecodeLineExitsigIntoExitCode(fields, line) ==
    LET kv == split_metadata_line(line)
    IN  IF ~kv.key.ok \/ ~kv.value.ok THEN Err
        ELSE LET key == OkVal(kv.key)
                 value == OkVal(kv.value)
             IN  CASE key = K_cgmem -> SetParsed(fields, "memory", value)
                   [] key = K_exitcode -> SetParsed(fields, "exit_code", value)
                   [] key = K_exitsig -> SetParsed(fields, "exit_code", value)
                   [] key = K_message -> Ok([fields EXCEPT !.exit_message = Some(value)])
                   [] key = K_status -> Ok([fields EXCEPT !.exit_status = Some(value)])
                   [] key = K_time -> SetParsed(fields, "cpu_time", value)
                   [] key = K_time_wall -> SetParsed(fields, "wall_time", value)
                   [] OTHER -> Ok(fields)

DecodeLine(fields, line) ==
    LET kv == split_metadata_line(line)
    IN  IF ~kv.key.ok \/ ~kv.value.ok THEN Err
        ELSE LET key == OkVal(kv.key)
                 value == OkVal(kv.value)
             IN  CASE key = K_cgmem -> SetParsed(fields, "memory", value)
                   [] key = K_exitcode -> SetParsed(fields, "exit_code", value)
                   [] key = K_exitsig -> SetParsed(fields, "exit_signal", value)
                   [] key = K_message -> Ok([fields EXCEPT !.exit_message = Some(value)])
                   [] key = K_status -> Ok([fields EXCEPT !.exit_status = Some(value)])
                   [] key = K_time -> SetParsed(fields, "cpu_time", value)
                   [] key = K_time_wall -> SetParsed(fields, "wall_time", value)
                   [] OTHER -> Ok(fields)

\* for line in metadata_str.lines() { ... ? ... }: the first failing line
\* ends the loop with an error
RECURSIVE DecodeFrom(_, _)
DecodeFrom(fields, ls) ==
    IF ls = <<>> THEN Ok(fields)
    ELSE LET r == DecodeLine(fields, Head(ls))
         IN  IF r.ok THEN DecodeFrom(OkVal(r), Tail(ls)) ELSE Err

Decode(text) == DecodeFrom(NoFields, Lines(text))

(***************************************************************************)
(* The shared AtomicU64 box-id counter.  A u64 is four 16-bit limbs, least *)
(* significant first, so that fetch_add wraps at 2^64 as the atomic does.  *)
(***************************************************************************)
MAX_BOX_ID == 900
LimbBase == 65536
LimbCount == 4

U64Zero == [i \in 1..LimbCount |-> 0]
U64Max == [i \in 1..LimbCount |-> LimbBase - 1]
U64FromLimbs(l1, l2, l3, l4) == <<l1, l2, l3, l4>>

\* wrapping add of 1
U64Add1(c) ==
    LET carry == {i \in 1..LimbCount : \A j \in 1..(i - 1) : c[j] = LimbBase - 1}
    IN  [i \in 1..LimbCount |->
            IF i \in carry THEN (c[i] + 1) % LimbBase ELSE c[i]]

\* c % m for 0 < m < LimbBase, limb by limb
U64Mod(c, m) ==
    LET w1 == LimbBase % m
        w2 == (w1 * w1) % m
        w3 == (w2 * w1) % m
    IN  ((c[1] % m) + (c[2] % m) * w1 + (c[3] % m) * w2 + (c[4] % m) * w3) % m

\* box_id.fetch_add(1, Ordering::SeqCst) % MAX_BOX_ID: the id comes from the
\* value before the add
BoxIdOffByOne(counter) == U64Mod(counter, MAX_BOX_ID + 1)
CurrentBoxId(counter) == U64Mod(counter, MAX_BOX_ID)

(***************************************************************************)
(* State                                                                   *)
(***************************************************************************)
VARIABLES
    metadata_str,   \* SpecDecode: the text read from the metadata file
    decoded,        \* SpecDecode: None, or Some(result of the decoding loop)
    box_id,         \* the shared AtomicU64 counter
    allocLog,       \* SpecBoxId: the ids handed out so far, oldest first
    handle,         \* SpecIsolate: per handle, its lifecycle and box_id
    running,        \* SpecIsolate: per handle, None or Some(exit status) of
                    \*   the isolate --run whose metadata is not yet read
    runs,           \* SpecIsolate: per handle, the run calls that returned
    lastRun,        \* SpecIsolate: per handle, None or Some(what the last
                    \*   run call did and returned)
    metaFile,       \* SpecIsolate: per box, None or Some(text) of
                    \*   <box_dir>/metadata.txt
    cleanupTasks,   \* SpecIsolate: handles whose spawned cleanup task has
                    \*   not yet issued its command
    cleanupCalls,   \* SpecIsolate: per handle, isolate --cleanup commands
                    \*   issued for it, with their outcomes
    pc,             \* Spec: per request, where install_package stands
    req,            \* Spec: per request, the AddRuntimeRequest it carries
    current_box_id, \* Spec: per request, None or Some(its box id)
    issued,         \* Spec: per request, the isolate commands it has issued
    init_res,       \* Spec: per request, None or Some(outcome of its
                    \*   isolate --init)
    cmd_res,        \* Spec: per request, None or Some(exit status of its
                    \*   isolate --run)
    runtime_id,     \* Spec: per request, None or Some(its registry row id)
    response,       \* Spec: per request, None or Some(what it returned)
    semaphore,      \* Spec: the gate: free permits and the queue of waiters
    holding,        \* Spec: the requests that hold a permit
    waited,         \* Spec: the requests that were suspended at the acquire
    registry,       \* Spec: the runtime table, row id = position
    metadata_cache, \* Spec: the name cache, runtime id -> name
    cachedBy,       \* Spec: per request, the cache keys it inserted
    workdirs,       \* Spec: per box id, None or Some(state of /tmp/<id>)
    runtimeDirs,    \* Spec: per runtime id, None or Some(state of
                    \*   /envicutor/runtimes/<id>)
    sandboxes,      \* Spec: the box ids isolate --init has set up
    constraints,    \* SpecStage: None or Some(the StageConstraints given to
                    \*   run_this_stage)
    overflow_checks,\* SpecStage: whether the build checks integer overflow
    stage_res       \* SpecStage: None or Some(how run_this_stage ended and
                    \*   the nsjail arguments it built)

decVars == <<metadata_str, decoded>>
allocVars == <<allocLog>>
isoVars == <<handle, running, runs, lastRun, metaFile, cleanupTasks, cleanupCalls>>
reqVars == <<pc, req, current_box_id, issued, init_res, cmd_res, runtime_id, response>>
gateVars == <<semaphore, holding, waited>>
storeVars == <<registry, metadata_cache, cachedBy, runtimeDirs>>
boxVars == <<workdirs, sandboxes>>
instVars == <<reqVars, gateVars, storeVars, boxVars>>
stageVars == <<constraints, overflow_checks, stage_res>>
vars == <<decVars, box_id, allocVars, isoVars, instVars, stageVars>>

DecodeIdle == metadata_str = <<>> /\ decoded = None
AllocIdle == allocLog = <<>>
InstallIdle ==
    /\ pc = <<>> /\ req = <<>> /\ current_box_id = <<>> /\ issued = <<>>
    /\ init_res = <<>> /\ cmd_res = <<>> /\ runtime_id = <<>> /\ response = <<>>
    /\ semaphore = <<>> /\ holding = {} /\ waited = {} /\ registry = <<>>
    /\ metadata_cache = <<>> /\ cachedBy = <<>> /\ workdirs = <<>>
    /\ runtimeDirs = <<>> /\ sandboxes = {}
StageIdle == constraints = None /\ overflow_checks = FALSE /\ stage_res = None
IsolateIdle ==
    /\ handle = <<>> /\ running = <<>> /\ runs = <<>> /\ lastRun = <<>>
    /\ metaFile = <<>> /\ cleanupTasks = {} /\ cleanupCalls = <<>>

(***************************************************************************)
(* SpecDecode: the decoder applied to every text of up to MaxLines lines   *)
(***************************************************************************)
K_unknown == <<"m", "a", "x", "-", "r", "s", "s">>

MetaKeys ==
    {K_cgmem, K_exitcode, K_exitsig, K_message, K_status, K_time, K_time_wall,
     K_unknown, <<>>}

MetaValues ==
    {<<"0">>, <<"1", "3", "7">>, <<"0", "7">>, <<"+", "5">>, <<>>,
     <<"1", ".", "5">>, <<"S", "G">>,
     <<"4", "2", "9", "4", "9", "6", "7", "2", "9", "6">>}

MetaLines ==
    {k \o <<":">> \o v : k \in MetaKeys, v \in MetaValues}
    \cup {<<>>,
          K_cgmem \o <<"1", "0", "2", "4">>,
          K_message \o <<":", "a", ":", "b">>,
          <<"x", ":">> \o K_exitcode \o <<":", "3">>,
          K_exitcode \o <<":", "1", ":">>}

RECURSIVE JoinLines(_)
JoinLines(ls) ==
    IF ls = <<>> THEN <<>>
    ELSE IF Len(ls) = 1 THEN ls[1]
    ELSE ls[1] \o <<"\n">> \o JoinLines(Tail(ls))

\* the example of the specification's section 8, and texts that end their
\* lines with "\n" or "\r\n"
ExampleTexts ==
    {K_cgmem \o <<":", "1", "0", "2", "4", "\n">> \o K_exitcode \o <<":", "0", "\n">>
        \o K_time \o <<":", "1", "\n">> \o K_time_wall \o <<":", "2", "\n">>,
     K_exitcode \o <<":", "1", "3", "7", "\n">> \o K_status \o <<":", "S", "G", "\n">>,
     K_exitcode \o <<":", "0", "\r", "\n">> \o K_cgmem \o <<":", "9", "\r", "\n">>,
     K_status \o <<":", "R", "E", "\n", "\n">> \o K_exitcode \o <<":", "1">>,
     <<"\n">>}

MetaTexts ==
    {JoinLines(ls) : ls \in UNION {[1..n -> MetaLines] : n \in 0..MaxLines}}
    \cup ExampleTexts

InitDecode ==
    /\ StageIdle
    /\ metadata_str \in MetaTexts
    /\ decoded = None
    /\ box_id = U64Zero
    /\ AllocIdle
    /\ IsolateIdle
    /\ InstallIdle

\* isolate.rs 103-140 / install_packages.rs 374-455 on the text read
DecodeMetadata ==
    /\ decoded = None
    /\ decoded' = Some(Decode(metadata_str))
    /\ UNCHANGED <<metadata_str, box_id, allocVars, isoVars, instVars, stageVars>>

NextDecode == DecodeMetadata

SpecDecode == InitDecode /\ [][NextDecode]_vars

(***************************************************************************)
(* SpecBoxId: allocations from the shared counter, from counter values     *)
(* that include the neighbourhood of the u64 wrap                          *)
(***************************************************************************)
CounterStarts ==
    {U64Zero,
     U64FromLimbs(MAX_BOX_ID - 1, 0, 0, 0),
     U64FromLimbs(LimbBase - 3, 0, 0, 0),
     U64FromLimbs(LimbBase - 2, LimbBase - 1, 7, 0),
     U64FromLimbs(12345, 678, 9, 1011),
     U64FromLimbs(LimbBase - 16, LimbBase - 1, LimbBase - 1, LimbBase - 1),
     U64FromLimbs(LimbBase - MAX_BOX_ID - 5, LimbBase - 1, LimbBase - 1, LimbBase - 1),
     U64Max}

InitBoxId ==
    /\ StageIdle
    /\ box_id \in CounterStarts
    /\ allocLog = <<>>
    /\ DecodeIdle
    /\ IsolateIdle
    /\ InstallIdle

\* install_packages.rs 89, by whichever request runs it next: the atomic
\* makes concurrent allocations happen one after the other
AllocateBoxId ==
    /\ Len(allocLog) < MAX_BOX_ID + ExtraAllocs
    /\ allocLog' = Append(allocLog, [id |-> CurrentBoxId(box_id),
                                     wrapped |-> box_id = U64Max])
    /\ box_id' = U64Add1(box_id)
    /\ UNCHANGED <<decVars, isoVars, instVars, stageVars>>

NextBoxId == AllocateBoxId

SpecBoxId == InitBoxId /\ [][NextBoxId]_vars

(***************************************************************************)
(* SpecIsolate: Isolate handles (isolate.rs).  A caller initializes a      *)
(* handle on a box id of its choice, calls run on it some number of times, *)
(* and drops it; the drop spawns the task that issues isolate --cleanup.   *)
(***************************************************************************)
Handles == 1..NumHandles
IsoBoxes == {0}

\* exit statuses of a command that could be executed
ExitStatuses == {"success", "failure"}

\* metadata texts the isolate process leaves behind in SpecIsolate
T_exit0 == K_exitcode \o <<":", "0", "\n">> \o K_status \o <<":", "O", "K", "\n">>
T_killed == K_exitcode \o <<":", "1", "3", "7", "\n">> \o K_status \o <<":", "S", "G", "\n">>
T_noExitCode == K_status \o <<":", "X", "X", "\n">> \o K_message \o <<":", "b", "o", "o", "m", "\n">>
T_broken == K_cgmem \o <<":", "9", "\n">> \o K_cgmem \o <<"1", "0", "2", "4", "\n">>
RunMetaTexts == {T_exit0, T_killed, T_noExitCode, T_broken}

InitIsolate ==
    /\ StageIdle
    /\ handle = [h \in Handles |-> [state |-> "none", box_id |-> 0, stale |-> {}]]
    /\ running = [h \in Handles |-> None]
    /\ runs = [h \in Handles |-> 0]
    /\ lastRun = [h \in Handles |-> None]
    /\ metaFile = [b \in IsoBoxes |-> None]
    /\ cleanupTasks = {}
    /\ cleanupCalls = [h \in Handles |-> <<>>]
    /\ box_id = U64Zero
    /\ DecodeIdle
    /\ AllocIdle
    /\ InstallIdle

\* isolate.rs 39-59.  outcome "spawn_error": the command could not be
\* executed; "failure" / "success": its exit status.  stale remembers the
\* dropped handles of the same box whose cleanup task has not run yet
IsolateInit(h, b, outcome) ==
    /\ handle[h].state = "none"
    /\ handle' = [handle EXCEPT ![h] =
                    [state |-> IF outcome = "success" THEN "live" ELSE "failed",
                     box_id |-> b,
                     stale |-> {g \in cleanupTasks : handle[g].box_id = b}]]
    /\ UNCHANGED <<running, runs, lastRun, metaFile, cleanupTasks, cleanupCalls>>
    /\ UNCHANGED <<decVars, box_id, allocVars, instVars, stageVars>>

\* isolate.rs 143: !cmd_res.status.success() && exit_code.is_none()
FaultWheneverCommandFails(status, fields) == status # "success"
ExecutionFault(status, fields) == status # "success" /\ ~IsSome(fields.exit_code)

\* isolate.rs 67-90: the command could not be executed, run returns the error
IsolateRunSpawnError(h) ==
    /\ handle[h].state = "live" /\ running[h] = None /\ runs[h] < MaxRuns
    /\ runs' = [runs EXCEPT ![h] = @ + 1]
    /\ lastRun' = [lastRun EXCEPT ![h] =
                      Some([cmd |-> "spawn_error", file |-> metaFile[handle[h].box_id],
                            ret |-> Err])]
    /\ UNCHANGED <<handle, running, metaFile, cleanupTasks, cleanupCalls>>
    /\ UNCHANGED <<decVars, box_id, allocVars, instVars, stageVars>>

\* isolate.rs 67-90: the command ran and exited with `status`; the isolate
\* process wrote `written` to the --meta path, or (None) left the path as it
\* was
IsolateRunCommand(h, status, written) ==
    /\ handle[h].state = "live" /\ running[h] = None /\ runs[h] < MaxRuns
    /\ running' = [running EXCEPT ![h] = Some(status)]
    /\ metaFile' = IF written = None THEN metaFile
                   ELSE [metaFile EXCEPT ![handle[h].box_id] = written]
    /\ UNCHANGED <<handle, runs, lastRun, cleanupTasks, cleanupCalls>>
    /\ UNCHANGED <<decVars, box_id, allocVars, instVars, stageVars>>

\* isolate.rs 92-162: read the metadata file, decode it, decide the result
RunResult(status, file) ==
    IF file = None THEN Err
    ELSE LET d == Decode(Unwrap(file))
         IN  IF ~d.ok THEN Err
             ELSE IF ExecutionFault(status, OkVal(d)) THEN Err
             ELSE d

IsolateRunReturn(h) ==
    /\ running[h] # None
    /\ LET file == metaFile[handle[h].box_id]
       IN  lastRun' = [lastRun EXCEPT ![h] =
                          Some([cmd |-> Unwrap(running[h]), file |-> file,
                                ret |-> RunResult(Unwrap(running[h]), file)])]
    /\ running' = [running EXCEPT ![h] = None]
    /\ runs' = [runs EXCEPT ![h] = @ + 1]
    /\ UNCHANGED <<handle, metaFile, cleanupTasks, cleanupCalls>>
    /\ UNCHANGED <<decVars, box_id, allocVars, instVars, stageVars>>

\* isolate.rs 165-188: drop returns once the cleanup task is spawned.  run
\* borrows the handle, so no drop happens inside a run
DropSpawnsNothing(h) ==
    /\ handle[h].state = "live" /\ running[h] = None
    /\ handle' = [handle EXCEPT ![h].state = "dropped"]
    /\ UNCHANGED <<running, runs, lastRun, metaFile, cleanupTasks, cleanupCalls>>
    /\ UNCHANGED <<decVars, box_id, allocVars, instVars, stageVars>>

IsolateDrop(h) ==
    /\ handle[h].state = "live" /\ running[h] = None
    /\ handle' = [handle EXCEPT ![h].state = "dropped"]
    /\ cleanupTasks' = cleanupTasks \cup {h}
    /\ UNCHANGED <<running, runs, lastRun, metaFile, cleanupCalls>>
    /\ UNCHANGED <<decVars, box_id, allocVars, instVars, stageVars>>

\* isolate.rs 168-187: the spawned task issues isolate --cleanup once; a
\* failure of the command is printed.  A successful cleanup removes the box
\* directory, the metadata file with it
CleanupFailureReachesCaller(h, outcome) ==
    /\ h \in cleanupTasks
    /\ cleanupTasks' = cleanupTasks \ {h}
    /\ cleanupCalls' = [cleanupCalls EXCEPT ![h] = Append(@, outcome)]
    /\ metaFile' = IF outcome = "success"
                   THEN [metaFile EXCEPT ![handle[h].box_id] = None]
                   ELSE metaFile
    /\ lastRun' = IF outcome = "success" \/ lastRun[h] = None THEN lastRun
                  ELSE [lastRun EXCEPT ![h] = Some([Unwrap(@) EXCEPT !.ret = Err])]
    /\ UNCHANGED <<handle, running, runs>>
    /\ UNCHANGED <<decVars, box_id, allocVars, instVars, stageVars>>

CleanupTask(h, outcome) ==
    /\ h \in cleanupTasks
    /\ cleanupTasks' = cleanupTasks \ {h}
    /\ cleanupCalls' = [cleanupCalls EXCEPT ![h] = Append(@, outcome)]
    /\ metaFile' = IF outcome = "success"
                   THEN [metaFile EXCEPT ![handle[h].box_id] = None]
                   ELSE metaFile
    /\ UNCHANGED <<handle, running, runs, lastRun>>
    /\ UNCHANGED <<decVars, box_id, allocVars, instVars, stageVars>>

CommandOutcomes == {"spawn_error"} \cup ExitStatuses

NextIsolate ==
    \E h \in Handles :
        \/ \E b \in IsoBoxes, o \in CommandOutcomes : IsolateInit(h, b, o)
        \/ IsolateRunSpawnError(h)
        \/ \E st \in ExitStatuses, w \in {None} \cup {Some(t) : t \in RunMetaTexts} :
              IsolateRunCommand(h, st, w)
        \/ IsolateRunReturn(h)
        \/ IsolateDrop(h)
        \/ \E o \in CommandOutcomes : CleanupTask(h, o)

SpecIsolate == InitIsolate /\ [][NextIsolate]_vars

\* a spawned task is polled by the runtime until it completes
FairSpecIsolate ==
    SpecIsolate /\ \A h \in Handles : WF_vars(\E o \in CommandOutcomes : CleanupTask(h, o))

(***************************************************************************)
(* Spec: concurrent install_package requests (install_packages.rs 61-469). *)
(* One action per stretch of the handler between two awaits; every I/O     *)
(* operation may fail.                                                     *)
(***************************************************************************)
Reqs == 1..NumRequests

\* AddRuntimeRequest as far as the handler reads it; a name identifies its
\* request
Named(r) == ToString(r)
PlainShape ==
    [name |-> "n", nix_shell |-> "recipe", run_script |-> "run",
     source_file_name |-> "main", compile_script |-> "", memory |-> 1]
RequestShapes ==
    {PlainShape,
     [PlainShape EXCEPT !.compile_script = "cc"],
     [PlainShape EXCEPT !.memory = 2]}
    \cup {[PlainShape EXCEPT ![f] = ""] :
            f \in {"name", "nix_shell", "run_script", "source_file_name"}}
RequestOf(r, shape) == IF shape.name = "" THEN shape ELSE [shape EXCEPT !.name = Named(r)]

\* system_limits.installation, and AddRuntimeRequest::get_limits against it
SystemLimits == [installation |-> [memory |-> 1]]
get_limits(request, ceiling) ==
    IF request.memory <= ceiling.memory THEN Ok([memory |-> request.memory]) ELSE Err

\* install_packages.rs 68-78
bad_request_message(request) ==
    IF request.name = "" THEN "Name can't be empty"
    ELSE IF request.nix_shell = "" THEN "Nix shell can't be empty"
    ELSE IF request.run_script = "" THEN "Run command can't be empty"
    ELSE IF request.source_file_name = "" THEN "Source file name can't be empty"
    ELSE ""

RECURSIVE U64AddN(_, _)
U64AddN(c, n) == IF n = 0 THEN c ELSE U64AddN(U64Add1(c), n - 1)

\* the counter starts one below a multiple of MAX_BOX_ID, so that the ids the
\* requests get pass through the modulo
InstallCounterStart == U64FromLimbs(MAX_BOX_ID - 1, 0, 0, 0)
InstallBoxes == {CurrentBoxId(U64AddN(InstallCounterStart, k)) : k \in 0..(NumRequests - 1)}
RuntimeIds == 1..NumRequests

\* /tmp/<id>: whether box/ exists in it, whether box/shell.nix was written,
\* and metadata.txt
EmptyDir == [box |-> FALSE, shell |-> FALSE, meta |-> None]
StaleDir == [box |-> TRUE, shell |-> TRUE, meta |-> Some(T_killed)]
\* /envicutor/runtimes/<id>: the files in it and those made executable
EmptyRuntimeDir == [files |-> {}, exec |-> {}]
StaleRuntimeDir == [files |-> {"compile", "run"}, exec |-> {"compile"}]

InstallMetaTexts == {T_exit0, T_noExitCode, T_broken}

InitInstall ==
    /\ StageIdle
    /\ pc = [r \in Reqs |-> "start"]
    /\ req = [r \in Reqs |-> None]
    /\ current_box_id = [r \in Reqs |-> None]
    /\ issued = [r \in Reqs |-> {}]
    /\ init_res = [r \in Reqs |-> None]
    /\ cmd_res = [r \in Reqs |-> None]
    /\ runtime_id = [r \in Reqs |-> None]
    /\ response = [r \in Reqs |-> None]
    /\ semaphore = [permits |-> Permits, waiters |-> <<>>]
    /\ holding = {}
    /\ waited = {}
    /\ registry = <<>>
    /\ metadata_cache = <<>>
    /\ cachedBy = [r \in Reqs |-> {}]
    /\ \E stale \in BOOLEAN :
          /\ workdirs = [b \in InstallBoxes |->
                            IF stale /\ b = CurrentBoxId(InstallCounterStart)
                            THEN Some(StaleDir) ELSE None]
          /\ runtimeDirs = [i \in RuntimeIds |->
                            IF stale /\ i = 1 THEN Some(StaleRuntimeDir) ELSE None]
    /\ sandboxes = {}
    /\ box_id = InstallCounterStart
    /\ DecodeIdle
    /\ AllocIdle
    /\ IsolateIdle

notInstVars == <<decVars, allocVars, isoVars, stageVars>>

(***************************************************************************)
(* The permit: tokio's Semaphore hands a released permit to the longest    *)
(* waiter, and counts it free only when nobody waits.                      *)
(***************************************************************************)
Granted == IF semaphore.waiters # <<>> THEN {Head(semaphore.waiters)} ELSE {}

Goto(r, to) ==
    /\ pc' = [pc EXCEPT ![r] = to]
    /\ UNCHANGED gateVars

\* drop(permit), by the statement of line 356 or by leaving the function
DropForgetsWaiter(r, to) ==
    /\ semaphore' = [semaphore EXCEPT !.permits = @ + 1]
    /\ holding' = holding \ {r}
    /\ waited' = waited
    /\ pc' = [pc EXCEPT ![r] = to]

DropPermitAndGoto(r, to) ==
    /\ semaphore' = IF semaphore.waiters # <<>>
                    THEN [semaphore EXCEPT !.waiters = Tail(@)]
                    ELSE [semaphore EXCEPT !.permits = @ + 1]
    /\ holding' = (holding \ {r}) \cup Granted
    /\ waited' = waited
    /\ pc' = [q \in Reqs |-> IF q = r THEN to
                             ELSE IF q \in Granted THEN "spawn" ELSE pc[q]]

\* a return: the response (with the step that returned it), and the permit
\* dropped if the request holds one
ReturnKeepsPermit(r, status, body) ==
    /\ response' = [response EXCEPT ![r] =
                        Some([status |-> status, body |-> body, at |-> pc[r]])]
    /\ Goto(r, "done")

Return(r, status, body) ==
    /\ response' = [response EXCEPT ![r] =
                        Some([status |-> status, body |-> body, at |-> pc[r]])]
    /\ IF r \in holding THEN DropPermitAndGoto(r, "done") ELSE Goto(r, "done")

InternalError(r) == Return(r, "INTERNAL_SERVER_ERROR", None)

BoxOf(r) == Unwrap(current_box_id[r])

(***************************************************************************)
(* The paths install_package formats, as sequences of path components,     *)
(* and what the state of /tmp/<id> says about them.  The handler writes    *)
(* two files below the directory it has just created: the recipe and,      *)
(* through isolate --meta, the metadata; nothing else is in it.            *)
(***************************************************************************)
METADATA_FILE_NAME == "metadata.txt"
\* 104: format!("/tmp/{current_box_id}")
workdir(id) == <<"tmp", id>>
\* 126: format!("{workdir}/box/shell.nix")
nix_shell_path(id) == workdir(id) \o <<"box", "shell.nix">>
\* 139: format!("{workdir}/{METADATA_FILE_NAME}")
metadata_file_path(id) == workdir(id) \o <<METADATA_FILE_NAME>>
\* 154-175: the arguments of isolate --run that name a path or the box
RunCommandArgs(id) ==
    [meta |-> metadata_file_path(id),
     dir |-> workdir(id),
     b |-> id,
     recipe |-> workdir(id) \o <<"shell.nix">>]

Parent(path) == SubSeq(path, 1, Len(path) - 1)

DirExists(path) ==
    \E id \in DOMAIN workdirs :
        /\ workdirs[id] # None
        /\ \/ path = workdir(id)
           \/ path = workdir(id) \o <<"box">> /\ Unwrap(workdirs[id]).box

FileExists(path) ==
    \E id \in DOMAIN workdirs :
        /\ workdirs[id] # None
        /\ \/ path = nix_shell_path(id) /\ Unwrap(workdirs[id]).shell
           \/ path = metadata_file_path(id) /\ Unwrap(workdirs[id]).meta # None

(***************************************************************************)
(* install_package, step by step                                           *)
(***************************************************************************)
\* 68-87: the emptiness checks; a bad request is answered at once
ValidateRequest(r, shape) ==
    /\ pc[r] = "start"
    /\ req' = [req EXCEPT ![r] = Some(RequestOf(r, shape))]
    /\ IF bad_request_message(RequestOf(r, shape)) # ""
       THEN Return(r, "BAD_REQUEST", None)
       ELSE Goto(r, "alloc") /\ UNCHANGED response
    /\ UNCHANGED <<current_box_id, issued, init_res, cmd_res, runtime_id>>
    /\ UNCHANGED <<storeVars, boxVars, box_id, notInstVars>>

\* 89: the box id
AllocateCurrentBoxId(r) ==
    /\ pc[r] = "alloc"
    /\ current_box_id' = [current_box_id EXCEPT ![r] = Some(CurrentBoxId(box_id))]
    /\ box_id' = U64Add1(box_id)
    /\ Goto(r, "init")
    /\ UNCHANGED <<req, issued, init_res, cmd_res, runtime_id, response>>
    /\ UNCHANGED <<storeVars, boxVars, notInstVars>>

\* 90-102: isolate --init; only a command that could not be executed is an
\* error here, the exit status is not looked at
RunInitCommand(r, outcome) ==
    /\ pc[r] = "init"
    /\ issued' = [issued EXCEPT ![r] = @ \cup {"init"}]
    /\ init_res' = [init_res EXCEPT ![r] = Some(outcome)]
    /\ sandboxes' = IF outcome = "success" THEN sandboxes \cup {BoxOf(r)} ELSE sandboxes
    /\ IF outcome = "spawn_error"
       THEN InternalError(r)
       ELSE Goto(r, "clear_workdir") /\ UNCHANGED response
    /\ UNCHANGED <<req, current_box_id, cmd_res, runtime_id>>
    /\ UNCHANGED <<storeVars, workdirs, box_id, notInstVars>>

\* 104-115: try_exists, then remove_dir_all when it said Ok(true).
\* "unseen": try_exists did not say Ok(true) although the directory is there
ClearOutcomes(dir) ==
    IF dir = None THEN {"absent"} ELSE {"removed", "unseen", "remove_error"}

ClearWorkdir(r, outcome) ==
    /\ pc[r] = "clear_workdir"
    /\ outcome \in ClearOutcomes(workdirs[BoxOf(r)])
    /\ workdirs' = IF outcome = "removed"
                   THEN [workdirs EXCEPT ![BoxOf(r)] = None] ELSE workdirs
    /\ IF outcome = "remove_error"
       THEN InternalError(r)
       ELSE Goto(r, "create_workdir") /\ UNCHANGED response
    /\ UNCHANGED <<req, current_box_id, issued, init_res, cmd_res, runtime_id>>
    /\ UNCHANGED <<storeVars, sandboxes, box_id, notInstVars>>

\* 116-124: create_dir fails on a directory that is there
CreateWorkdir(r, ok) ==
    /\ pc[r] = "create_workdir"
    /\ IF ok /\ workdirs[BoxOf(r)] = None
       THEN /\ workdirs' = [workdirs EXCEPT ![BoxOf(r)] = Some(EmptyDir)]
            /\ Goto(r, "write_shell") /\ UNCHANGED response
       ELSE /\ InternalError(r)
            /\ UNCHANGED workdirs
    /\ UNCHANGED <<req, current_box_id, issued, init_res, cmd_res, runtime_id>>
    /\ UNCHANGED <<storeVars, sandboxes, box_id, notInstVars>>

\* 126-127: the recipe goes to <workdir>/box/shell.nix, and create_dir made
\* no box/ in <workdir>: the write can only succeed when something outside
\* the handler has made that directory in the meantime
BoxDirAppears(r) ==
    /\ pc[r] = "write_shell"
    /\ workdirs[BoxOf(r)] # None
    /\ ~Unwrap(workdirs[BoxOf(r)]).box
    /\ workdirs' = [workdirs EXCEPT ![BoxOf(r)] = Some([Unwrap(@) EXCEPT !.box = TRUE])]
    /\ UNCHANGED <<reqVars, gateVars, storeVars, sandboxes, box_id, notInstVars>>

\* 126-137
WriteNixShell(r, ok) ==
    /\ pc[r] = "write_shell"
    /\ IF ok /\ workdirs[BoxOf(r)] # None /\ Unwrap(workdirs[BoxOf(r)]).box
       THEN /\ workdirs' = [workdirs EXCEPT ![BoxOf(r)] =
                               Some([Unwrap(@) EXCEPT !.shell = TRUE])]
            /\ Goto(r, "limits") /\ UNCHANGED response
       ELSE /\ InternalError(r)
            /\ UNCHANGED workdirs
    /\ UNCHANGED <<req, current_box_id, issued, init_res, cmd_res, runtime_id>>
    /\ UNCHANGED <<storeVars, sandboxes, box_id, notInstVars>>

\* 139-142: the limits are checked here, after the sandbox was set up
CheckLimits(r) ==
    /\ pc[r] = "limits"
    /\ IF get_limits(Unwrap(req[r]), SystemLimits.installation).ok
       THEN Goto(r, "acquire") /\ UNCHANGED response
       ELSE Return(r, "BAD_REQUEST", None)
    /\ UNCHANGED <<req, current_box_id, issued, init_res, cmd_res, runtime_id>>
    /\ UNCHANGED <<storeVars, boxVars, box_id, notInstVars>>

\* 144-152: semaphore.acquire().await
AcquiresWithoutPermit(sem) == TRUE
CanAcquire(sem) == sem.permits > 0

AcquirePermit(r) ==
    /\ pc[r] = "acquire"
    /\ IF CanAcquire(semaphore)
       THEN /\ semaphore' = [semaphore EXCEPT !.permits = @ - 1]
            /\ holding' = holding \cup {r}
            /\ pc' = [pc EXCEPT ![r] = "spawn"]
            /\ UNCHANGED waited
       ELSE /\ semaphore' = [semaphore EXCEPT !.waiters = Append(@, r)]
            /\ pc' = [pc EXCEPT ![r] = "waiting"]
            /\ waited' = waited \cup {r}
            /\ UNCHANGED holding
    /\ UNCHANGED <<req, current_box_id, issued, init_res, cmd_res, runtime_id, response>>
    /\ UNCHANGED <<storeVars, boxVars, box_id, notInstVars>>

\* 154-185: isolate --run is started, or could not be executed
StartRunCommand(r, ok) ==
    /\ pc[r] = "spawn"
    /\ IF ok
       THEN /\ issued' = [issued EXCEPT ![r] = @ \cup {"run"}]
            /\ Goto(r, "running") /\ UNCHANGED response
       ELSE /\ InternalError(r)
            /\ UNCHANGED issued
    /\ UNCHANGED <<req, current_box_id, init_res, cmd_res, runtime_id>>
    /\ UNCHANGED <<storeVars, boxVars, box_id, notInstVars>>

\* 175-187 and 356: the command exits with `status`, having written
\* `written` to --meta (None: nothing written).  Without success the if-body
\* is skipped and the permit is dropped at once
PersistWhateverStatus(status) == TRUE
RunSucceeded(status) == status = "success"

FinishRunCommand(r, status, written) ==
    /\ pc[r] = "running"
    /\ cmd_res' = [cmd_res EXCEPT ![r] = Some(status)]
    /\ workdirs' = IF written # None /\ workdirs[BoxOf(r)] # None
                   THEN [workdirs EXCEPT ![BoxOf(r)] =
                            Some([Unwrap(@) EXCEPT !.meta = written])]
                   ELSE workdirs
    /\ IF RunSucceeded(status)
       THEN Goto(r, "db_insert")
       ELSE DropPermitAndGoto(r, "read_meta")
    /\ UNCHANGED <<req, current_box_id, issued, init_res, runtime_id, response>>
    /\ UNCHANGED <<storeVars, sandboxes, box_id, notInstVars>>

\* 191-240: the blocking task opens the store, inserts the row and asks for
\* its id.  "rowid_error": the row is in, the id could not be had
DbOutcomes == {"ok", "open_error", "execute_error", "rowid_error"}

InsertRuntime(r, outcome) ==
    /\ pc[r] = "db_insert"
    /\ registry' = IF outcome \in {"ok", "rowid_error"}
                   THEN Append(registry, [name |-> Unwrap(req[r]).name,
                                          source_file_name |-> Unwrap(req[r]).source_file_name,
                                          by |-> r])
                   ELSE registry
    /\ IF outcome = "ok"
       THEN /\ runtime_id' = [runtime_id EXCEPT ![r] = Some(Len(registry) + 1)]
            /\ Goto(r, "clear_runtime_dir") /\ UNCHANGED response
       ELSE /\ InternalError(r)
            /\ UNCHANGED runtime_id
    /\ UNCHANGED <<req, current_box_id, issued, init_res, cmd_res>>
    /\ UNCHANGED <<metadata_cache, cachedBy, runtimeDirs, boxVars, box_id, notInstVars>>

IdOf(r) == Unwrap(runtime_id[r])

\* 242-254
ClearRuntimeDir(r, outcome) ==
    /\ pc[r] = "clear_runtime_dir"
    /\ outcome \in ClearOutcomes(runtimeDirs[IdOf(r)])
    /\ runtimeDirs' = IF outcome = "removed"
                      THEN [runtimeDirs EXCEPT ![IdOf(r)] = None] ELSE runtimeDirs
    /\ IF outcome = "remove_error"
       THEN InternalError(r)
       ELSE Goto(r, "create_runtime_dir") /\ UNCHANGED response
    /\ UNCHANGED <<req, current_box_id, issued, init_res, cmd_res, runtime_id>>
    /\ UNCHANGED <<registry, metadata_cache, cachedBy, boxVars, box_id, notInstVars>>

\* 255-265
CreateRuntimeDir(r, ok) ==
    /\ pc[r] = "create_runtime_dir"
    /\ IF ok /\ runtimeDirs[IdOf(r)] = None
       THEN /\ runtimeDirs' = [runtimeDirs EXCEPT ![IdOf(r)] = Some(EmptyRuntimeDir)]
            /\ Goto(r, IF Unwrap(req[r]).compile_script # ""
                       THEN "write_compile" ELSE "write_run")
            /\ UNCHANGED response
       ELSE /\ InternalError(r)
            /\ UNCHANGED runtimeDirs
    /\ UNCHANGED <<req, current_box_id, issued, init_res, cmd_res, runtime_id>>
    /\ UNCHANGED <<registry, metadata_cache, cachedBy, boxVars, box_id, notInstVars>>

\* fs::write, then fs::set_permissions 0o755 where `executable`
WriteOutcomes(executable) ==
    IF executable THEN {"ok", "write_error", "chmod_error"} ELSE {"ok", "write_error"}

WriteArtifactGoesOnAfterError(r, at, file, executable, outcome, next) ==
    /\ pc[r] = at
    /\ outcome \in WriteOutcomes(executable)
    /\ runtimeDirs' =
          [runtimeDirs EXCEPT ![IdOf(r)] =
              Some([files |-> IF outcome # "write_error"
                              THEN Unwrap(@).files \cup {file} ELSE Unwrap(@).files,
                    exec |-> IF outcome = "ok" /\ executable
                             THEN Unwrap(@).exec \cup {file} ELSE Unwrap(@).exec])]
    /\ Goto(r, next) /\ UNCHANGED response
    /\ UNCHANGED <<req, current_box_id, issued, init_res, cmd_res, runtime_id>>
    /\ UNCHANGED <<registry, metadata_cache, cachedBy, boxVars, box_id, notInstVars>>

WriteArtifact(r, at, file, executable, outcome, next) ==
    /\ pc[r] = at
    /\ outcome \in WriteOutcomes(executable)
    /\ runtimeDirs' =
          [runtimeDirs EXCEPT ![IdOf(r)] =
              Some([files |-> IF outcome # "write_error"
                              THEN Unwrap(@).files \cup {file} ELSE Unwrap(@).files,
                    exec |-> IF outcome = "ok" /\ executable
                             THEN Unwrap(@).exec \cup {file} ELSE Unwrap(@).exec])]
    /\ IF outcome = "ok"
       THEN Goto(r, next) /\ UNCHANGED response
       ELSE InternalError(r)
    /\ UNCHANGED <<req, current_box_id, issued, init_res, cmd_res, runtime_id>>
    /\ UNCHANGED <<registry, metadata_cache, cachedBy, boxVars, box_id, notInstVars>>

\* 265-289, 291-313, 315-337, 339-349
WriteCompileScript(r, outcome) ==
    WriteArtifact(r, "write_compile", "compile", TRUE, outcome, "write_run")
WriteRunScript(r, outcome) ==
    WriteArtifact(r, "write_run", "run", TRUE, outcome, "write_env")
WriteEnvScript(r, outcome) ==
    WriteArtifact(r, "write_env", "env", TRUE, outcome, "write_recipe")
WriteRecipe(r, outcome) ==
    WriteArtifact(r, "write_recipe", "shell.nix", FALSE, outcome, "cache_insert")

\* 351-356: the cache entry under the write lock, then drop(permit)
CacheUnderName(r) == [key |-> IdOf(r), name |-> Unwrap(req[r]).source_file_name]
CacheEntry(r) == [key |-> IdOf(r), name |-> Unwrap(req[r]).name]

InsertIntoCache(r) ==
    /\ pc[r] = "cache_insert"
    /\ LET e == CacheEntry(r)
       IN  /\ metadata_cache' =
                [k \in DOMAIN metadata_cache \cup {e.key} |->
                    IF k = e.key THEN e.name ELSE metadata_cache[k]]
           /\ cachedBy' = [cachedBy EXCEPT ![r] = @ \cup {e.key}]
    /\ DropPermitAndGoto(r, "read_meta")
    /\ UNCHANGED <<req, current_box_id, issued, init_res, cmd_res, runtime_id, response>>
    /\ UNCHANGED <<registry, runtimeDirs, boxVars, box_id, notInstVars>>

\* 358-468: read <workdir>/metadata.txt and decode it; the exit status of the
\* command plays no part
ReadMetadata(r, ok) ==
    /\ pc[r] = "read_meta"
    /\ LET dir == workdirs[BoxOf(r)]
           file == IF dir = None THEN None ELSE Unwrap(dir).meta
           d == IF file = None THEN Err ELSE Decode(Unwrap(file))
       IN  IF ok /\ d.ok
           THEN Return(r, "OK", Some(OkVal(d)))
           ELSE InternalError(r)
    /\ UNCHANGED <<req, current_box_id, issued, init_res, cmd_res, runtime_id>>
    /\ UNCHANGED <<storeVars, boxVars, box_id, notInstVars>>

InstallStep(r) ==
    \/ \E shape \in RequestShapes : ValidateRequest(r, shape)
    \/ AllocateCurrentBoxId(r)
    \/ \E o \in CommandOutcomes : RunInitCommand(r, o)
    \/ \E o \in {"absent", "removed", "unseen", "remove_error"} : ClearWorkdir(r, o)
    \/ \E ok \in BOOLEAN : CreateWorkdir(r, ok)
    \/ BoxDirAppears(r)
    \/ \E ok \in BOOLEAN : WriteNixShell(r, ok)
    \/ CheckLimits(r)
    \/ AcquirePermit(r)
    \/ \E ok \in BOOLEAN : StartRunCommand(r, ok)
    \/ \E st \in ExitStatuses, w \in {None} \cup {Some(t) : t \in InstallMetaTexts} :
          FinishRunCommand(r, st, w)
    \/ \E o \in DbOutcomes : InsertRuntime(r, o)
    \/ \E o \in {"absent", "removed", "unseen", "remove_error"} : ClearRuntimeDir(r, o)
    \/ \E ok \in BOOLEAN : CreateRuntimeDir(r, ok)
    \/ \E o \in WriteOutcomes(TRUE) :
          WriteCompileScript(r, o) \/ WriteRunScript(r, o) \/ WriteEnvScript(r, o)
    \/ \E o \in WriteOutcomes(FALSE) : WriteRecipe(r, o)
    \/ InsertIntoCache(r)
    \/ \E ok \in BOOLEAN : ReadMetadata(r, ok)

Next == \E r \in Reqs : InstallStep(r)

Spec == InitInstall /\ [][Next]_vars

\* every request's task is polled until it returns, and every command that
\* was started exits
FairSpec == Spec /\ \A r \in Reqs : WF_vars(InstallStep(r))

(***************************************************************************)
(* SpecAdmission: the installations that get as far as the semaphore.  A   *)
(* request that is rejected, or whose working directory cannot be set up,  *)
(* returns at install_packages.rs 68-142 without ever touching the         *)
(* semaphore; here every step before the acquire at 144 takes its          *)
(* successful branch, and every step from the acquire on is as in Spec.    *)
(***************************************************************************)
AdmissionShapes == {PlainShape, [PlainShape EXCEPT !.compile_script = "cc"]}

AdmissionStep(r) ==
    \/ \E shape \in AdmissionShapes : ValidateRequest(r, shape)
    \/ AllocateCurrentBoxId(r)
    \/ RunInitCommand(r, "success")
    \/ \E o \in {"absent", "removed"} : ClearWorkdir(r, o)
    \/ CreateWorkdir(r, TRUE)
    \/ BoxDirAppears(r)
    \/ WriteNixShell(r, TRUE)
    \/ CheckLimits(r)
    \/ AcquirePermit(r)
    \/ \E ok \in BOOLEAN : StartRunCommand(r, ok)
    \/ \E st \in ExitStatuses, w \in {None} \cup {Some(t) : t \in InstallMetaTexts} :
          FinishRunCommand(r, st, w)
    \/ \E o \in DbOutcomes : InsertRuntime(r, o)
    \/ \E o \in {"absent", "removed", "unseen", "remove_error"} : ClearRuntimeDir(r, o)
    \/ \E ok \in BOOLEAN : CreateRuntimeDir(r, ok)
    \/ \E o \in WriteOutcomes(TRUE) :
          WriteCompileScript(r, o) \/ WriteRunScript(r, o) \/ WriteEnvScript(r, o)
    \/ \E o \in WriteOutcomes(FALSE) : WriteRecipe(r, o)
    \/ InsertIntoCache(r)
    \/ \E ok \in BOOLEAN : ReadMetadata(r, ok)

NextAdmission == \E r \in Reqs : AdmissionStep(r)

SpecAdmission == InitInstall /\ [][NextAdmission]_vars

\* every request's task is polled until it returns, and every command that
\* was started exits
FairSpecAdmission == SpecAdmission /\ \A r \in Reqs : WF_vars(AdmissionStep(r))

(***************************************************************************)
(* SpecArrivals: install_package is called again and again.  One           *)
(* installation stays in its isolate --run while further requests arrive   *)
(* one after the other; a request slot that has returned takes the next    *)
(* request.  Every I/O operation succeeds, requests differ in the memory   *)
(* they ask for.                                                           *)
(***************************************************************************)
ExtraArrivals == 2

AllBoxes == 0..(MAX_BOX_ID - 1)
ArrivalShapes == {PlainShape, [PlainShape EXCEPT !.memory = 2]}

InitArrivals ==
    /\ StageIdle
    /\ pc = [r \in Reqs |-> "start"]
    /\ req = [r \in Reqs |-> None]
    /\ current_box_id = [r \in Reqs |-> None]
    /\ issued = [r \in Reqs |-> {}]
    /\ init_res = [r \in Reqs |-> None]
    /\ cmd_res = [r \in Reqs |-> None]
    /\ runtime_id = [r \in Reqs |-> None]
    /\ response = [r \in Reqs |-> None]
    /\ semaphore = [permits |-> Permits, waiters |-> <<>>]
    /\ holding = {}
    /\ waited = {}
    /\ registry = <<>>
    /\ metadata_cache = <<>>
    /\ cachedBy = [r \in Reqs |-> {}]
    /\ workdirs = [b \in AllBoxes |-> None]
    /\ runtimeDirs = [i \in RuntimeIds |-> None]
    /\ sandboxes = {}
    /\ box_id = U64Zero
    /\ DecodeIdle
    /\ AllocIdle
    /\ IsolateIdle

\* 61-67: the handler is entered for a new request; its locals are fresh
Arrive(r) ==
    /\ pc[r] = "done"
    /\ box_id[1] < MAX_BOX_ID + ExtraArrivals
    /\ \A i \in 2..LimbCount : box_id[i] = 0
    /\ pc' = [pc EXCEPT ![r] = "start"]
    /\ req' = [req EXCEPT ![r] = None]
    /\ current_box_id' = [current_box_id EXCEPT ![r] = None]
    /\ issued' = [issued EXCEPT ![r] = {}]
    /\ init_res' = [init_res EXCEPT ![r] = None]
    /\ cmd_res' = [cmd_res EXCEPT ![r] = None]
    /\ runtime_id' = [runtime_id EXCEPT ![r] = None]
    /\ response' = [response EXCEPT ![r] = None]
    /\ cachedBy' = [cachedBy EXCEPT ![r] = {}]
    /\ waited' = waited \ {r}
    /\ UNCHANGED <<semaphore, holding, registry, metadata_cache, runtimeDirs>>
    /\ UNCHANGED <<boxVars, box_id, notInstVars>>

\* the requests other than r are not between two steps of the handler,
\* unless inside isolate --run
OneAfterTheOther(r) == \A q \in Reqs \ {r} : pc[q] \in {"start", "running", "done"}

ArrivalStep(r) ==
    \/ OneAfterTheOther(r) /\ (\E q \in Reqs : pc[q] = "running") /\ Arrive(r)
    \/ OneAfterTheOther(r) /\ \E shape \in ArrivalShapes : ValidateRequest(r, shape)
    \/ OneAfterTheOther(r) /\ AllocateCurrentBoxId(r)
    \/ OneAfterTheOther(r) /\ RunInitCommand(r, "success")
    \/ OneAfterTheOther(r) /\ \E o \in {"absent", "removed"} : ClearWorkdir(r, o)
    \/ OneAfterTheOther(r) /\ CreateWorkdir(r, TRUE)
    \/ OneAfterTheOther(r) /\ BoxDirAppears(r)
    \/ /\ OneAfterTheOther(r)
       /\ pc[r] = "write_shell"
       /\ workdirs[BoxOf(r)] # None /\ Unwrap(workdirs[BoxOf(r)]).box
       /\ WriteNixShell(r, TRUE)
    \/ OneAfterTheOther(r) /\ CheckLimits(r)
    \/ OneAfterTheOther(r) /\ AcquirePermit(r)
    \/ OneAfterTheOther(r) /\ StartRunCommand(r, TRUE)

NextArrivals == \E r \in Reqs : ArrivalStep(r)

SpecArrivals == InitArrivals /\ [][NextArrivals]_vars

(***************************************************************************)
(* SpecStage: run_this_stage of the worker's child-container-init          *)
(* (main.rs 23-73) builds the nsjail command line from a StageConstraints. *)
(* A u32 is two 16-bit limbs, least significant first, so that the         *)
(* multiplication overflows where the u32 one does.                        *)
(***************************************************************************)
\* memory values 0..MaxSmallMemory are enumerated, next to the values about
\* the largest one whose product fits and the largest u32
MaxSmallMemory == 60

U32FromLimbs(l1, l2) == <<l1, l2>>
IsZero(c) == \A i \in 1..Len(c) : c[i] = 0

\* c * k for 0 <= k < LimbBase, and whether it went beyond 32 bits
MulLimbs(c, k) ==
    LET lo == c[1] * k
        hi == c[2] * k + (lo \div LimbBase)
    IN  [val |-> <<lo % LimbBase, hi % LimbBase>>, overflow |-> hi >= LimbBase]

\* a * k on u32: with overflow checks an overflowing product panics,
\* without them it wraps
U32Mul(a, k, checks) ==
    LET m == MulLimbs(a, k)
    IN  IF m.overflow /\ checks THEN Err ELSE Ok(m.val)

\* c divided by d, for 0 < d < LimbBase
DivLimbs(c, d) ==
    LET t == (c[2] % d) * LimbBase + c[1]
    IN  [quot |-> <<t \div d, c[2] \div d>>, rem |-> t % d]

\* to_string of an unsigned integer
RECURSIVE DecimalDigits(_)
DecimalDigits(c) ==
    IF IsZero(c) THEN <<>>
    ELSE LET qr == DivLimbs(c, 10)
         IN  DecimalDigits(qr.quot) \o <<Digits[qr.rem + 1]>>

to_string(c) == IF IsZero(c) THEN <<"0">> ELSE DecimalDigits(c)

\* main.rs 12-21; the fields other than memory are the same in every state
U32MaxLimbs == U32FromLimbs(LimbBase - 1, LimbBase - 1)
\* 4294 = floor((2^32 - 1) / 1000000)
LargestMemoryThatFits == 4294
StageMemories ==
    {U32FromLimbs(lo, 0) : lo \in 0..MaxSmallMemory}
    \cup {U32FromLimbs(lo, 0) :
            lo \in {LargestMemoryThatFits - 1, LargestMemoryThatFits,
                    LargestMemoryThatFits + 1, LimbBase - 1}}
    \cup {U32FromLimbs(lo, hi) :
            lo \in {0, 1, LimbBase - 1}, hi \in {1, 64, LimbBase - 1}}

StageConstraintsOf(memory, networking) ==
    [time |-> U32FromLimbs(5, 0), memory |-> memory,
     no_processes |-> U32FromLimbs(16, 0), output_size |-> U32FromLimbs(1, 0),
     error_size |-> U32FromLimbs(1, 0), file_size |-> U32FromLimbs(2, 0),
     networking |-> networking, no_files |-> U32FromLimbs(8, 0)]

InitStage ==
    /\ \E memory \in StageMemories, networking \in BOOLEAN :
          constraints = Some(StageConstraintsOf(memory, networking))
    /\ overflow_checks \in BOOLEAN
    /\ stage_res = None
    /\ box_id = U64Zero
    /\ DecodeIdle
    /\ AllocIdle
    /\ IsolateIdle
    /\ InstallIdle

\* main.rs 42: (constraints.memory * 1000 * 1000).to_string()
cgroup_mem_max(memory, checks) ==
    LET kb == U32Mul(memory, 1000, checks)
        b == IF kb.ok THEN U32Mul(OkVal(kb), 1000, checks) ELSE Err
    IN  IF b.ok THEN Ok(to_string(OkVal(b))) ELSE Err

\* main.rs 37-53: the arguments up to the "--"
NsjailArgs(c, mem) ==
    [t |-> to_string(c.time),
     cgroup_mem_max |-> mem,
     cgroup_pids_max |-> to_string(c.no_processes),
     cgroup_mem_swap_max |-> <<"0">>,
     rlimit_nofile |-> to_string(c.no_files),
     rlimit_fsize |-> to_string(c.file_size),
     network |-> c.networking]

\* main.rs 23-73: readlink (31-35), the command line (37-63), the spawn
\* (64-67), the write to the child's stdin (68-71)
run_this_stage(readlink_ok, spawn_ok, stdin_ok) ==
    /\ stage_res = None
    /\ LET c == Unwrap(constraints)
           mem == cgroup_mem_max(c.memory, overflow_checks)
       IN  stage_res' =
             Some(IF ~readlink_ok THEN [result |-> "Err", args |-> None, spawned |-> FALSE]
                  ELSE IF ~mem.ok THEN [result |-> "panic", args |-> None, spawned |-> FALSE]
                  ELSE IF ~spawn_ok
                       THEN [result |-> "Err", args |-> Some(NsjailArgs(c, OkVal(mem))),
                             spawned |-> FALSE]
                  ELSE [result |-> IF stdin_ok THEN "Ok" ELSE "Err",
                        args |-> Some(NsjailArgs(c, OkVal(mem))), spawned |-> TRUE])
    /\ UNCHANGED <<constraints, overflow_checks>>
    /\ UNCHANGED <<decVars, box_id, allocVars, isoVars, instVars>>

NextStage == \E readlink_ok, spawn_ok, stdin_ok \in BOOLEAN :
                 run_this_stage(readlink_ok, spawn_ok, stdin_ok)

SpecStage == InitStage /\ [][NextStage]_vars

(***************************************************************************)
(* Properties.  What a metadata text says is stated here from its          *)
(* characters, independently of the decoder's own splitting and parsing.   *)
(***************************************************************************)
Count(s, c) == Cardinality({i \in 1..Len(s) : s[i] = c})
Positions(s, c) == {i \in 1..Len(s) : s[i] = c}
MaxOf(S) == CHOOSE x \in S : \A y \in S : y <= x

\* the lines of a text: the stretches between consecutive "\n", without the
\* "\r" of a "\r\n"
TextLines(text) ==
    LET nl == Positions(text, "\n")
        Nth(k) == CHOOSE i \in nl : Cardinality({j \in nl : j < i}) = k - 1
        From(k) == IF k = 1 THEN 1 ELSE Nth(k - 1) + 1
        last == IF nl = {} THEN 0 ELSE MaxOf(nl)
        Cut(a, b) == IF b >= a /\ text[b] = "\r" THEN SubSeq(text, a, b - 1)
                     ELSE SubSeq(text, a, b)
        whole == [k \in 1..Cardinality(nl) |-> Cut(From(k), Nth(k) - 1)]
    IN  IF last < Len(text) THEN Append(whole, SubSeq(text, last + 1, Len(text)))
        ELSE whole

\* the value is what follows the final colon, the key what lies between it
\* and the colon before (or the start of the line)
LastColon(line) == MaxOf(Positions(line, ":"))
ValueText(line) == SubSeq(line, LastColon(line) + 1, Len(line))
KeyText(line) ==
    LET before == {i \in Positions(line, ":") : i < LastColon(line)}
        from == IF before = {} THEN 1 ELSE MaxOf(before) + 1
    IN  SubSeq(line, from, LastColon(line) - 1)

NumericKeys == {K_cgmem, K_exitcode, K_exitsig, K_time, K_time_wall}
TextKeys == {K_message, K_status}

U32MaxDigits == <<"4", "2", "9", "4", "9", "6", "7", "2", "9", "5">>
AllDigits(v) == Len(v) >= 1 /\ \A i \in 1..Len(v) : IsDigit(v[i])
Significant(v) ==
    LET nz == {i \in 1..Len(v) : v[i] # "0"}
    IN  IF nz = {} THEN <<>>
        ELSE SubSeq(v, CHOOSE i \in nz : \A j \in nz : i <= j, Len(v))
FitsU32(v) ==
    LET d == Significant(v)
    IN  \/ Len(d) < 10
        \/ /\ Len(d) = 10
           /\ \/ d = U32MaxDigits
              \/ \E i \in 1..10 :
                    /\ DigitVal(d[i]) < DigitVal(U32MaxDigits[i])
                    /\ \A j \in 1..(i - 1) : d[j] = U32MaxDigits[j]
IsDecimalU32(v) == AllDigits(v) /\ FitsU32(v)
\* from_str also takes one leading "+"
ParsesAsU32(v) ==
    \/ IsDecimalU32(v)
    \/ Len(v) >= 1 /\ v[1] = "+" /\ IsDecimalU32(Tail(v))

RECURSIVE PlaceSum(_, _)
PlaceSum(v, weight) ==
    IF v = <<>> THEN 0
    ELSE DigitVal(v[Len(v)]) * weight + PlaceSum(SubSeq(v, 1, Len(v) - 1), weight * 10)
DecimalValue(v) == PlaceSum(Significant(v), 1)

WellFormedLine(line) ==
    /\ Count(line, ":") = 1
    /\ KeyText(line) \in NumericKeys => IsDecimalU32(ValueText(line))

WellFormedText(text) ==
    \A i \in 1..Len(TextLines(text)) : WellFormedLine(TextLines(text)[i])

\* what a well-formed text says about one field: the value of the last line
\* that carries the field's key, nothing when no line carries it
Said(text, key) ==
    LET ls == TextLines(text)
        at == {i \in 1..Len(ls) : KeyText(ls[i]) = key}
    IN  IF at = {} THEN None
        ELSE IF key \in NumericKeys THEN Some(DecimalValue(ValueText(ls[MaxOf(at)])))
        ELSE Some(ValueText(ls[MaxOf(at)]))

SaidFields(text) ==
    [memory |-> Said(text, K_cgmem), exit_code |-> Said(text, K_exitcode),
     exit_signal |-> Said(text, K_exitsig), exit_message |-> Said(text, K_message),
     exit_status |-> Said(text, K_status), cpu_time |-> Said(text, K_time),
     wall_time |-> Said(text, K_time_wall)]

\* C7: decoding a text whose lines all are key:value with exactly one colon,
\* the numeric keys carrying decimal u32 values, succeeds; each field is the
\* value of its key, a field whose key does not occur is None, and lines with
\* other keys leave every field as it was.
C7_WellFormedDecodes ==
    (IsSome(decoded) /\ WellFormedText(metadata_str)) =>
        /\ Unwrap(decoded).ok
        /\ OkVal(Unwrap(decoded)) = SaidFields(metadata_str)

C7_Witness ==
    /\ metadata_str =
          K_cgmem \o <<":", "1", "0", "2", "4", "\n">> \o K_exitcode \o <<":", "0", "\n">>
          \o K_time \o <<":", "1", "\n">> \o K_time_wall \o <<":", "2", "\n">>
    /\ decoded = Some(Ok([NoFields EXCEPT !.memory = Some(1024), !.exit_code = Some(0),
                                          !.cpu_time = Some(1), !.wall_time = Some(2)]))

MalformedLine(line) ==
    \/ Count(line, ":") = 0
    \/ /\ Count(line, ":") >= 1
       /\ KeyText(line) \in NumericKeys
       /\ ~ParsesAsU32(ValueText(line))

MalformedText(text) ==
    \E i \in 1..Len(TextLines(text)) : MalformedLine(TextLines(text)[i])

\* C8: when some line of the text has no colon, or a numeric key's value does
\* not parse, the decode is an error and carries no fields, whatever earlier
\* lines decoded to.
C8_MalformedFails ==
    (IsSome(decoded) /\ MalformedText(metadata_str)) => Unwrap(decoded) = Err

C8_Witness ==
    /\ metadata_str = JoinLines(<<K_cgmem \o <<":", "0">>, K_cgmem \o <<"1", "0", "2", "4">>>>)
    /\ DecodeLine(NoFields, K_cgmem \o <<":", "0">>).ok
    /\ decoded = Some(Err)

\* the last n allocations, n at most MAX_BOX_ID
Window == 
    LET n == IF Len(allocLog) < MAX_BOX_ID THEN Len(allocLog) ELSE MAX_BOX_ID
    IN  SubSeq(allocLog, Len(allocLog) - n + 1, Len(allocLog))
WindowIds == {Window[i].id : i \in 1..Len(Window)}
\* the counter passed from 2^64 - 1 to 0 between two allocations of the window
WindowWraps == \E i \in 1..(Len(Window) - 1) : Window[i].wrapped

OncePerRound ==
    /\ WindowIds \subseteq 0..(MAX_BOX_ID - 1)
    /\ Cardinality(WindowIds) = Len(Window)
    /\ Len(Window) = MAX_BOX_ID => WindowIds = 0..(MAX_BOX_ID - 1)

\* C6 as stated: from any counter value, MAX_BOX_ID consecutive allocations
\* return every id of [0, MAX_BOX_ID) exactly once (so no two of them return
\* the same id), and every id lies in [0, MAX_BOX_ID).
C6_AnyCounterOncePerRound == OncePerRound

\* what the allocator does keep: a round in which the u64 counter does not
\* wrap from 2^64 - 1 to 0 returns every id once (2^64 is no multiple of
\* MAX_BOX_ID, so a round across the wrap repeats ids)
OncePerRoundWithoutWrap == ~WindowWraps => OncePerRound

FullRoundWithoutWrap ==
    /\ Len(allocLog) > MAX_BOX_ID
    /\ ~WindowWraps
    /\ WindowIds = 0..(MAX_BOX_ID - 1)
    /\ allocLog[Len(allocLog)].id = 0
    /\ allocLog[Len(allocLog) - 1].id = MAX_BOX_ID - 1

\* the safety half: no cleanup before the drop, none for a handle that was
\* never produced, never a second one, and a dropped handle's cleanup is
\* either pending or issued
C2_CleanupSafe ==
    \A h \in Handles :
        /\ Len(cleanupCalls[h]) <= 1
        /\ handle[h].state # "dropped" => (cleanupCalls[h] = <<>> /\ h \notin cleanupTasks)
        /\ handle[h].state = "dropped" => (h \in cleanupTasks <=> cleanupCalls[h] = <<>>)

\* C2: a handle that a successful init produced has, once dropped, exactly
\* one isolate --cleanup issued for it, however many runs it made and whatever
\* they returned; no cleanup is issued before the drop, none for a handle that
\* was never produced, and never a second one.
C2_ExactlyOneCleanup ==
    /\ []C2_CleanupSafe
    /\ \A h \in Handles : (handle[h].state = "dropped") ~> (Len(cleanupCalls[h]) = 1)

C2_Witness ==
    \E h \in Handles :
        /\ handle[h].state = "dropped"
        /\ runs[h] = MaxRuns
        /\ ~Unwrap(lastRun[h]).ret.ok
        /\ Len(cleanupCalls[h]) = 1
        /\ cleanupTasks = {}

HasKey(text, key) ==
    \E i \in 1..Len(TextLines(text)) :
        /\ Count(TextLines(text)[i], ":") >= 1
        /\ KeyText(TextLines(text)[i]) = key

\* what C5 says of one returned run call r, given that the metadata file is
\* there and decodes
ErrorIffFaultWithoutExitCode(r) ==
    LET text == Unwrap(r.file)
    IN  /\ ~r.ret.ok <=> (r.cmd = "failure" /\ ~HasKey(text, K_exitcode))
        /\ r.ret.ok => OkVal(r.ret) = OkVal(Decode(text))

Decodable(r) == r.file # None /\ Decode(Unwrap(r.file)).ok

\* C5 as stated: whenever the metadata file is readable and decodes, run
\* returns an error exactly when the command exited non-zero and the metadata
\* has no exitcode key.
C5_ErrorIffNoExitCode ==
    \A h \in Handles :
        (lastRun[h] # None /\ Decodable(Unwrap(lastRun[h])))
            => ErrorIffFaultWithoutExitCode(Unwrap(lastRun[h]))

\* C5 as amended: the same for a run whose command could be executed; a
\* non-zero exit with exitcode:137 in the metadata is a result with
\* exit_code = Some(137).
C5_ErrorIffNoExitCodeWhenExecuted ==
    \A h \in Handles :
        (/\ lastRun[h] # None
         /\ Unwrap(lastRun[h]).cmd # "spawn_error"
         /\ Decodable(Unwrap(lastRun[h])))
            => ErrorIffFaultWithoutExitCode(Unwrap(lastRun[h]))

C5_Witness ==
    \E h \in Handles :
        /\ lastRun[h] # None
        /\ Unwrap(lastRun[h]).cmd = "failure"
        /\ Unwrap(lastRun[h]).file = Some(T_killed)
        /\ Unwrap(lastRun[h]).ret.ok
        /\ OkVal(Unwrap(lastRun[h]).ret).exit_code = Some(137)
        /\ OkVal(Unwrap(lastRun[h]).ret).exit_status = Some(<<"S", "G">>)

InRun == {r \in Reqs : pc[r] = "running"}
AtGate == {"acquire", "waiting"}

\* a request at the permit acquisition passes it only if fewer than Permits
\* permits were held or a holder gives its permit up in that very step
C1_Admission ==
    \A r \in Reqs :
        (pc[r] \in AtGate /\ pc'[r] \notin AtGate) =>
            \/ Cardinality(holding) < Permits
            \/ \E h \in holding : h \notin holding'

\* C1: at most Permits requests are inside isolate --run at any time, and a
\* request at the permit acquisition passes it only if fewer than Permits
\* permits were held or a holder gives its permit up in that very step.
C1_GateBoundsRuns ==
    /\ [](Cardinality(InRun) <= Permits)
    /\ [][C1_Admission]_vars

C1_Witness ==
    /\ Cardinality(InRun) = Permits
    /\ Cardinality(holding) = Permits
    /\ \E r \in Reqs : pc[r] = "waiting" /\ r \notin holding

RowsBy(r) == {i \in 1..Len(registry) : registry[i].by = r}

\* C3: a request whose isolate --run has not reported success (it exited
\* non-zero, could not be executed, or has not finished) has inserted no
\* registry row and no cache entry.
C3_NoPersistWithoutSuccess ==
    \A r \in Reqs :
        cmd_res[r] # Some("success") => (RowsBy(r) = {} /\ cachedBy[r] = {})

C3_Witness ==
    \E r \in Reqs :
        /\ pc[r] = "done"
        /\ cmd_res[r] = Some("failure")
        /\ Unwrap(response[r]).status = "OK"
        /\ RowsBy(r) = {} /\ cachedBy[r] = {}
        /\ \E q \in Reqs : RowsBy(q) # {}

\* one row, one cache entry from that row's id to the request's name, and a
\* directory for that id with run and env, and compile iff one was supplied
Persisted(r) ==
    /\ Cardinality(RowsBy(r)) = 1
    /\ \A i \in RowsBy(r) :
          /\ registry[i].name = Unwrap(req[r]).name
          /\ cachedBy[r] = {i}
          /\ i \in DOMAIN metadata_cache
          /\ metadata_cache[i] = Unwrap(req[r]).name
          /\ runtimeDirs[i] # None
          /\ {"run", "env"} \subseteq Unwrap(runtimeDirs[i]).files
          /\ "compile" \in Unwrap(runtimeDirs[i]).files
                <=> Unwrap(req[r]).compile_script # ""

\* C4 as stated: a request whose isolate --run succeeded ends with exactly
\* one new row, one cache entry for it, and the complete artifact directory.
C4_SuccessAlwaysPersists ==
    \A r \in Reqs :
        (pc[r] = "done" /\ cmd_res[r] = Some("success")) => Persisted(r)

\* the steps between the run and the cache entry
PersistSteps ==
    {"db_insert", "clear_runtime_dir", "create_runtime_dir", "write_compile",
     "write_run", "write_env", "write_recipe"}

\* C4 as amended: the same, for a request none of whose persist steps (the
\* row insert and its id, the directory reset, the writes and permission
\* changes) failed.
C4_SuccessPersistsUnlessStepFails ==
    \A r \in Reqs :
        (/\ pc[r] = "done"
         /\ cmd_res[r] = Some("success")
         /\ Unwrap(response[r]).at \notin PersistSteps) => Persisted(r)

C4_Witness ==
    \E r \in Reqs :
        /\ pc[r] = "done"
        /\ cmd_res[r] = Some("success")
        /\ Unwrap(response[r]).status = "OK"
        /\ Unwrap(req[r]).compile_script # ""
        /\ Persisted(r)
        /\ \E q \in Reqs :
              /\ q # r /\ pc[q] = "done" /\ cmd_res[q] = Some("success")
              /\ Unwrap(req[q]).compile_script = ""
              /\ RowsBy(q) = {1}
              /\ Persisted(q)

\* C9: a request answered with a validation error (an empty field, a limit
\* beyond the installation ceiling) has allocated no box id, issued no isolate
\* command and, having no box id, touched no working directory.
C9_RejectedBeforeAnySandbox ==
    \A r \in Reqs :
        (response[r] # None /\ Unwrap(response[r]).status = "BAD_REQUEST") =>
            (current_box_id[r] = None /\ issued[r] = {})

InitializedBy(r) ==
    /\ current_box_id[r] # None
    /\ "init" \in issued[r]
    /\ BoxOf(r) \in sandboxes

\* C10: once every request has returned, so that nothing is left to run,
\* isolate --cleanup has been issued for every box that a request's
\* isolate --init set up.
C10_CleanupForEveryInit ==
    (\A q \in Reqs : pc[q] = "done") =>
        \A r \in Reqs : InitializedBy(r) => "cleanup" \in issued[r]


\* Isolate::init: a failed init leaves nothing to run on and nothing to
\* clean up
IsolateInitFailureLeavesNoHandle ==
    \A h \in Handles :
        handle[h].state = "failed" =>
            /\ runs[h] = 0 /\ running[h] = None /\ lastRun[h] = None
            /\ cleanupCalls[h] = <<>> /\ h \notin cleanupTasks

\* C11: a request whose isolate --init exited non-zero has failed with an
\* error at that step, and has issued no isolate --run and no cleanup on its
\* box id.
C11_InitFailureEndsRequest ==
    \A r \in Reqs :
        init_res[r] = Some("failure") =>
            /\ pc[r] = "done"
            /\ Unwrap(response[r]).status = "INTERNAL_SERVER_ERROR"
            /\ Unwrap(response[r]).at = "init"
            /\ issued[r] = {"init"}

\* a value with a fractional part: digits, one ".", digits
DotAt(v) == CHOOSE i \in Positions(v, ".") : TRUE
FractionalValue(v) ==
    /\ Count(v, ".") = 1
    /\ IsDecimalU32(SubSeq(v, 1, DotAt(v) - 1))
    /\ AllDigits(SubSeq(v, DotAt(v) + 1, Len(v)))
IntegerPart(v) == DecimalValue(SubSeq(v, 1, DotAt(v) - 1))

\* C12: a text that is one `time` or `time-wall` line with a fractional
\* value decodes, and the field holds the integer part of the value.
C12_FractionalTimeTruncates ==
    \A key \in {K_time, K_time_wall} :
        LET ls == TextLines(metadata_str)
        IN  ( /\ IsSome(decoded)
              /\ Len(ls) = 1
              /\ Count(ls[1], ":") = 1
              /\ KeyText(ls[1]) = key
              /\ FractionalValue(ValueText(ls[1])) ) =>
                /\ Unwrap(decoded).ok
                /\ LET f == OkVal(Unwrap(decoded))
                   IN  IF key = K_time
                       THEN f.cpu_time = Some(IntegerPart(ValueText(ls[1])))
                       ELSE f.wall_time = Some(IntegerPart(ValueText(ls[1])))

\* the requests in flight whose isolate --init has set a sandbox up
InFlightInitialized == {r \in Reqs : pc[r] # "done" /\ init_res[r] = Some("success")}

\* C13: a request in flight that has a box id, or has initialized a sandbox,
\* holds a permit; so at most Permits sandboxes are initialized by requests
\* in flight.
C13_PermitBeforeSandbox ==
    /\ \A r \in Reqs :
          (pc[r] # "done" /\ (current_box_id[r] # None \/ "init" \in issued[r])) =>
              r \in holding
    /\ Cardinality(InFlightInitialized) <= Permits

\* the second half of C13 alone: the number of sandboxes initialized by
\* requests in flight
SandboxesBoundedByGate == Cardinality(InFlightInitialized) <= Permits

\* a box id is in use by a request from its allocation to the end of the
\* request's isolate --run
BoxInUse(r) == current_box_id[r] # None /\ cmd_res[r] = None /\ pc[r] # "done"

\* C14: no two requests in flight use the same box id at once, those that
\* hold a permit included.
C14_NoSharedBox ==
    \A r, q \in Reqs :
        (r # q /\ BoxInUse(r) /\ BoxInUse(q)) => BoxOf(r) # BoxOf(q)

\* what the caller holds of its handles: the handles, and what their runs
\* returned
CallerView == <<handle, running, runs, lastRun>>

\* the step drops handle h / the cleanup task of h issues its command
DropStep(h) == handle[h].state = "live" /\ handle'[h].state = "dropped"
CleanupStep(h) == Len(cleanupCalls'[h]) = Len(cleanupCalls[h]) + 1

\* a drop returns with the cleanup command not yet issued, and the step in
\* which the command is issued, whatever its outcome, leaves the caller's
\* handles and the results of its runs as they were
C15_Frame ==
    \A h \in Handles :
        /\ DropStep(h) => (cleanupCalls' = cleanupCalls /\ h \in cleanupTasks')
        /\ CleanupStep(h) => UNCHANGED CallerView

\* every result a run returned is the one its command and the metadata file
\* it read determine
ResultsFromRunOnly ==
    \A h \in Handles :
        lastRun[h] # None =>
            LET x == Unwrap(lastRun[h])
            IN  x.ret = IF x.cmd = "spawn_error" THEN Err ELSE RunResult(x.cmd, x.file)

\* C15: dropping a handle returns before the cleanup command is issued, and
\* the cleanup command's outcome changes no result that run has returned or
\* returns later.
C15_CleanupNeverPropagates ==
    /\ [][C15_Frame]_vars
    /\ []ResultsFromRunOnly

C15_Witness ==
    \E h, k \in Handles :
        /\ handle[h].state = "dropped"
        /\ cleanupCalls[h] \in {<<"failure">>, <<"spawn_error">>}
        /\ lastRun[h] # None
        /\ Unwrap(lastRun[h]).ret.ok
        /\ k # h
        /\ handle[k].state = "live"
        /\ runs[k] = MaxRuns
        /\ Unwrap(lastRun[k]).ret.ok

\* the steps a request takes with its permit in hand
HoldingSteps ==
    {"spawn", "running", "db_insert", "clear_runtime_dir", "create_runtime_dir",
     "write_compile", "write_run", "write_env", "write_recipe", "cache_insert"}

\* C16: the free permits and the permits held always add up to Permits; a
\* request holds a permit exactly from the acquisition to its drop(permit) or
\* its return, whichever path it leaves by; and with every request returned
\* all Permits permits are free again.
C16_PermitsConserved ==
    /\ semaphore.permits \in 0..Permits
    /\ semaphore.permits + Cardinality(holding) = Permits
    /\ \A r \in Reqs : r \in holding <=> pc[r] \in HoldingSteps
    /\ semaphore.waiters # <<>> => semaphore.permits = 0
    /\ (\A r \in Reqs : pc[r] = "done") =>
          (semaphore.permits = Permits /\ semaphore.waiters = <<>>)

C16_Witness ==
    /\ \A r \in Reqs : pc[r] = "done"
    /\ semaphore.permits = Permits
    /\ \E r, q \in Reqs :
          /\ Unwrap(response[r]).at \in PersistSteps
          /\ q \in waited
          /\ cmd_res[q] = Some("failure")

FullyWritten(i) ==
    /\ runtimeDirs[i] # None
    /\ {"run", "env", "shell.nix"} \subseteq Unwrap(runtimeDirs[i]).files
    /\ {"run", "env"} \subseteq Unwrap(runtimeDirs[i]).exec
    /\ Unwrap(req[registry[i].by]).compile_script # "" =>
          /\ "compile" \in Unwrap(runtimeDirs[i]).files
          /\ "compile" \in Unwrap(runtimeDirs[i]).exec

\* C18: every id in the name cache is the id of a registry row with the
\* cached name, and that row's artifact directory is fully written.
C18_CachedIsComplete ==
    \A k \in DOMAIN metadata_cache :
        /\ k \in 1..Len(registry)
        /\ registry[k].name = metadata_cache[k]
        /\ FullyWritten(k)

C18_Witness ==
    \E k \in DOMAIN metadata_cache, i \in 1..Len(registry) :
        /\ Unwrap(req[registry[k].by]).compile_script # ""
        /\ FullyWritten(k)
        /\ i \notin DOMAIN metadata_cache
        /\ pc[registry[i].by] = "done"
        /\ Unwrap(response[registry[i].by]).at \in {"write_run", "write_env", "write_recipe"}
        /\ runtimeDirs[i] # None

\* C19: a request whose isolate --run exited non-zero is answered with a
\* result only if the decoded metadata holds an exit code; without one it is
\* answered with an error.
C19_FaultWithoutExitCodeIsError ==
    \A r \in Reqs :
        (/\ pc[r] = "done"
         /\ cmd_res[r] = Some("failure")
         /\ Unwrap(response[r]).status = "OK") =>
            IsSome(Unwrap(Unwrap(response[r]).body).exit_code)

\* every line has a colon, and the value after the final colon of a line
\* whose key (the segment before that colon) is numeric is a decimal u32
ColonLines(text) ==
    \A i \in 1..Len(TextLines(text)) :
        LET line == TextLines(text)[i]
        IN  /\ Count(line, ":") >= 1
            /\ KeyText(line) \in NumericKeys => IsDecimalU32(ValueText(line))

ManyColons(text) == {i \in 1..Len(TextLines(text)) : Count(TextLines(text)[i], ":") >= 2}

\* C20: a line with two or more colons is split into the text after its
\* final colon, the value, and the segment between its last two colons, the
\* key; what precedes is dropped, so that the decode of a text with such
\* lines is the decode of those keys and values (`message:a:b` is key `a`
\* and sets no field).
C20_LastTwoSegments ==
    IsSome(decoded) =>
        /\ \A i \in ManyColons(metadata_str) :
              LET line == TextLines(metadata_str)[i]
              IN  split_metadata_line(line) =
                      [key |-> Ok(KeyText(line)), value |-> Ok(ValueText(line))]
        /\ (ManyColons(metadata_str) # {} /\ ColonLines(metadata_str)) =>
              /\ Unwrap(decoded).ok
              /\ OkVal(Unwrap(decoded)) = SaidFields(metadata_str)

C20_Witness ==
    /\ metadata_str = JoinLines(<<K_message \o <<":", "a", ":", "b">>,
                                  <<"x", ":">> \o K_exitcode \o <<":", "3">>>>)
    /\ decoded = Some(Ok([NoFields EXCEPT !.exit_code = Some(3)]))

\* memory * 1,000,000 written in decimal
BytesOfMegabytes(memory) ==
    IF IsZero(memory) THEN <<"0">>
    ELSE to_string(memory) \o <<"0", "0", "0", "0", "0", "0">>

StageBuiltCommand == stage_res # None /\ Unwrap(stage_res).args # None
StageGotPastReadlink ==
    stage_res # None /\ ~(Unwrap(stage_res).result = "Err" /\ Unwrap(stage_res).args = None)

\* C21: whatever u32 the memory constraint is, run_this_stage hands
\* --cgroup_mem_max the decimal of memory * 1,000,000, with no overflow or
\* wraparound on the way.
C21_MemoryCeilingExact ==
    StageGotPastReadlink =>
        /\ StageBuiltCommand
        /\ Unwrap(Unwrap(stage_res).args).cgroup_mem_max =
               BytesOfMegabytes(Unwrap(constraints).memory)

\* the part of C21 that the code keeps: a memory of at most
\* LargestMemoryThatFits megabytes is converted exactly
C21_SmallMemoryExact ==
    (StageGotPastReadlink /\ Unwrap(constraints).memory[2] = 0
        /\ Unwrap(constraints).memory[1] <= LargestMemoryThatFits) =>
        /\ StageBuiltCommand
        /\ Unwrap(Unwrap(stage_res).args).cgroup_mem_max =
               BytesOfMegabytes(Unwrap(constraints).memory)

C21_WrappedWitness ==
    /\ StageBuiltCommand
    /\ Unwrap(constraints).memory = U32FromLimbs(LargestMemoryThatFits + 1, 0)
    /\ Unwrap(Unwrap(stage_res).args).cgroup_mem_max = <<"3", "2", "7", "0", "4">>

C21_PanicWitness ==
    /\ stage_res # None
    /\ Unwrap(constraints).memory = U32FromLimbs(LargestMemoryThatFits + 1, 0)
    /\ Unwrap(stage_res).result = "panic"

C21_ExactWitness ==
    /\ StageBuiltCommand
    /\ Unwrap(constraints).memory = U32FromLimbs(LargestMemoryThatFits, 0)
    /\ Unwrap(Unwrap(stage_res).args).cgroup_mem_max =
           <<"4", "2", "9", "4", "0", "0", "0", "0", "0", "0">>

\* handle g was initialized on the box of h after h was dropped and before
\* the cleanup task of h ran, and g is not dropped yet
NewerOnSameBox(g, h) ==
    /\ g # h
    /\ handle[g].state = "live"
    /\ handle[g].box_id = handle[h].box_id
    /\ h \in handle[g].stale

CleanedUp(h) == \E i \in 1..Len(cleanupCalls[h]) : cleanupCalls[h][i] = "success"

\* C22: the cleanup spawned by the drop of a handle does not run while a
\* handle that was initialized later on the same box id is still alive: a
\* stale cleanup tears down no newer sandbox.
C22_StaleCleanupSparesNewer ==
    \A h, g \in Handles : NewerOnSameBox(g, h) => ~CleanedUp(h)

\* the newer handle had run and left its metadata, and the stale cleanup
\* removed its box
C22_TornDown ==
    \E h, g \in Handles :
        /\ NewerOnSameBox(g, h)
        /\ CleanedUp(h)
        /\ runs[g] > 0
        /\ Unwrap(lastRun[g]).ret.ok
        /\ metaFile[handle[g].box_id] = None

\* C23: a request that returns an error has put nothing into the name
\* cache; only requests that return a result have registered a runtime.
C23_ErrorAddsNoCacheEntry ==
    \A r \in Reqs :
        (pc[r] = "done" /\ Unwrap(response[r]).status # "OK") => cachedBy[r] = {}

\* the recipe is written into a directory that the reset of the working
\* directory has left in place
C24_WriteTargetExists ==
    \A r \in Reqs :
        pc[r] = "write_shell" => DirExists(Parent(nix_shell_path(BoxOf(r))))

\* the command is handed the path the recipe was written to, and the recipe
\* is there while the command runs
C24_CommandReadsWrittenPath ==
    \A r \in Reqs :
        pc[r] = "running" =>
            /\ RunCommandArgs(BoxOf(r)).recipe = nix_shell_path(BoxOf(r))
            /\ FileExists(RunCommandArgs(BoxOf(r)).recipe)

\* C24: the recipe path handed to isolate --run is the path the recipe was
\* written to, and that write goes into a directory that exists after the
\* working directory was reset, so that the run finds the recipe where it
\* reads it.
C24_RecipeWhereCommandReads ==
    /\ C24_WriteTargetExists
    /\ C24_CommandReadsWrittenPath

\* what the code does: the recipe is at <workdir>/box/shell.nix whenever the
\* command runs, which is not the path the command is given
C24_RecipeWrittenUnderBox ==
    \A r \in Reqs :
        pc[r] = "running" =>
            /\ FileExists(nix_shell_path(BoxOf(r)))
            /\ ~FileExists(RunCommandArgs(BoxOf(r)).recipe)

=============================================================================
